---------------------------- MODULE Spec2Model ----------------------------
(***************************************************************************)
(* Timeline segmentation and summarization orchestration of the meeting   *)
(* summarization backend:                                                  *)
(*   backend/app/services/summarization_service.py  (SummarizationService) *)
(*   backend/app/services/azure_openai_service.py   (AzureOpenAIService)   *)
(*   backend/app/models/summary.py                  (pydantic models)      *)
(*                                                                         *)
(* Times are whole seconds.  Python str values that the code inspects      *)
(* character by character (transcript text, speaker ids, time labels) are  *)
(* sequences of one-character strings; str values it only passes around    *)
(* (canned statements, topic names) are TLA+ strings.                      *)
(***************************************************************************)
EXTENDS Integers, Sequences, FiniteSets, TLC

VARIABLES
    use_mock,            \* AzureOpenAIService.use_mock
    timeline_interval,   \* SummarizationService.timeline_interval
    hashOrder,           \* iteration order of str sets in this process (hash seed)
    pc,                  \* position of the request inside summarize_meeting
    meeting,             \* the MeetingSession handed to summarize_meeting
    current_time,        \* local of _split_into_timelines
    timelines,           \* local of _split_into_timelines / timeline_segments
    timeline_summaries,  \* local of summarize_meeting
    calls,               \* history: the openai_service calls of this request
    lastCall,            \* history: arguments of the latest openai_service call
    lastResp,            \* history: what the provider did inside that call
    lastResult,          \* history: what that call returned
    response,            \* <<MeetingSummaryResponse>> once returned, else <<>>
    error,               \* the exception that left summarize_meeting, or "none"
    mockLog,             \* history: (arguments, result) of direct fallback calls
    ctor_use_mock,       \* the use_mock argument AzureOpenAIService was built with
    settings_use_mock_openai,  \* settings.use_mock_openai
    has_client,          \* AzureOpenAIService.client was constructed
    iterations,          \* history: iterations of the while loop of this request
    serviceLog,          \* history: direct calls of generate_*_summary
    reqs,                \* the requests in flight when requests interleave
    scope,               \* which inputs the requests of this run are drawn from
    formatted            \* history: results of direct _format_time / partition calls

vars == <<use_mock, timeline_interval, hashOrder, pc, meeting, current_time,
          timelines, timeline_summaries, calls, lastCall, lastResp, lastResult,
          response, error, mockLog, ctor_use_mock, settings_use_mock_openai,
          has_client, iterations, serviceLog, reqs, scope, formatted>>

\* what the actions of one sequential request never touch
frame == <<ctor_use_mock, settings_use_mock_openai, has_client, serviceLog,
           reqs, scope, formatted>>

-----------------------------------------------------------------------------
(* Bounds of the model *)

MaxSegs == 2        \* longest transcript, in segments
MaxTime == 3        \* largest start_time and largest duration, in seconds
MaxUnderrun == 3    \* how far below zero the cursor is followed when it runs away
MaxMockCalls == 3   \* direct fallback calls recorded in mockLog
MaxBackendCalls == 2   \* direct generate_*_summary calls recorded in serviceLog
MaxFormatCalls == 2    \* calls recorded in formatted

-----------------------------------------------------------------------------
(* Python built-ins the code relies on *)

Min(a, b) == IF a < b THEN a ELSE b

\* str.lower(), one character
LowerChar(c) ==
    CASE c = "A" -> "a" [] c = "B" -> "b" [] c = "C" -> "c" [] c = "D" -> "d"
      [] c = "E" -> "e" [] c = "F" -> "f" [] c = "G" -> "g" [] c = "H" -> "h"
      [] c = "I" -> "i" [] c = "J" -> "j" [] c = "K" -> "k" [] c = "L" -> "l"
      [] c = "M" -> "m" [] c = "N" -> "n" [] c = "O" -> "o" [] c = "P" -> "p"
      [] c = "Q" -> "q" [] c = "R" -> "r" [] c = "S" -> "s" [] c = "T" -> "t"
      [] c = "U" -> "u" [] c = "V" -> "v" [] c = "W" -> "w" [] c = "X" -> "x"
      [] c = "Y" -> "y" [] c = "Z" -> "z" [] OTHER -> c

\* str.lower()
Lower(s) == [i \in 1..Len(s) |-> LowerChar(s[i])]

\* needle in hay, for str
Contains(hay, needle) ==
    \E i \in 0..(Len(hay) - Len(needle)) :
        SubSeq(hay, i + 1, i + Len(needle)) = needle

\* str.split('\n')
RECURSIVE SplitLines(_)
SplitLines(s) ==
    IF \E i \in 1..Len(s) : s[i] = "\n"
    THEN LET i == CHOOSE j \in 1..Len(s) :
                      /\ s[j] = "\n"
                      /\ \A k \in 1..(j - 1) : s[k] # "\n"
         IN  <<SubSeq(s, 1, i - 1)>> \o SplitLines(SubSeq(s, i + 1, Len(s)))
    ELSE <<s>>

\* sep.join(parts), for str parts given as character sequences
RECURSIVE JoinChars(_, _)
JoinChars(parts, sep) ==
    IF parts = <<>> THEN <<>>
    ELSE IF Len(parts) = 1 THEN parts[1]
    ELSE parts[1] \o sep \o JoinChars(Tail(parts), sep)

\* sep.join(parts), for str parts given as strings: the pieces of the result
RECURSIVE JoinPieces(_, _)
JoinPieces(parts, sep) ==
    IF parts = <<>> THEN <<>>
    ELSE IF Len(parts) = 1 THEN <<parts[1]>>
    ELSE <<parts[1], sep>> \o JoinPieces(Tail(parts), sep)

DigitChars == <<"0", "1", "2", "3", "4", "5", "6", "7", "8", "9">>

\* str(n) / f"{n}" for n >= 0
RECURSIVE Decimal(_)
Decimal(n) ==
    IF n < 10 THEN <<DigitChars[n + 1]>>
    ELSE Decimal(n \div 10) \o <<DigitChars[(n % 10) + 1]>>

\* f"{n:02d}" for n >= 0
Decimal02(n) == IF n < 10 THEN <<"0">> \o Decimal(n) ELSE Decimal(n)

\* seq[:n]
Take(seq, n) == SubSeq(seq, 1, Min(n, Len(seq)))

\* the elements of a sequence
Range(seq) == {seq[i] : i \in 1..Len(seq)}

\* list(a_set_of_str): the process's iteration order over the set
ListOfSet(S) == SelectSeq(hashOrder, LAMBDA x : x \in S)

RECURSIVE Flatten(_)
Flatten(seqs) == IF seqs = <<>> THEN <<>> ELSE Head(seqs) \o Flatten(Tail(seqs))

Reverse(seq) == [i \in 1..Len(seq) |-> seq[Len(seq) + 1 - i]]

-----------------------------------------------------------------------------
(* JSON values and the dicts the backend returns.  A dict is a function    *)
(* from its keys to tagged values [t, v]: t = "list" with v the items,     *)
(* t = "str" with v the pieces of the text.                                *)

ListVal(items) == [t |-> "list", v |-> items]
StrVal(pieces) == [t |-> "str", v |-> pieces]

JsonDict(d) == [t |-> "dict", d |-> d]
JsonOther == [t |-> "other", d |-> <<>>]   \* a list, number, string or null

\* a faulty dict.get: the key is misspelled, so the default always wins
Get_Misspelled(d, key, default) == default

\* dict.get(key, default)
Get(d, key, default) == IF key \in DOMAIN d THEN d[key] ELSE default

-----------------------------------------------------------------------------
(* backend/app/models/summary.py: pydantic field validation *)

\* List[str] field
IsListOfStr(val) == val.t = "list"

\* str field
IsStr(val) == val.t = "str"

\* TimelineSummary(...): the model validates on construction
TimelineSummaryValid(key_points, topics, action_items) ==
    /\ IsListOfStr(key_points)
    /\ IsListOfStr(topics)
    /\ IsListOfStr(action_items)

\* MeetingSummaryResponse(...): the model validates on construction
MeetingSummaryResponseValid(overall_summary, key_decisions, follow_up_actions) ==
    /\ IsStr(overall_summary)
    /\ IsListOfStr(key_decisions)
    /\ IsListOfStr(follow_up_actions)

-----------------------------------------------------------------------------
(* AzureOpenAIService: the deterministic variant *)

keywords ==
    << [name |-> "Azure",          chars |-> <<"A","z","u","r","e">>],
       [name |-> "Speech",         chars |-> <<"S","p","e","e","c","h">>],
       [name |-> "OpenAI",         chars |-> <<"O","p","e","n","A","I">>],
       [name |-> "iOS",            chars |-> <<"i","O","S">>],
       [name |-> "backend",        chars |-> <<"b","a","c","k","e","n","d">>],
       [name |-> "test",           chars |-> <<"t","e","s","t">>],
       [name |-> "integration",    chars |-> <<"i","n","t","e","g","r","a","t","i","o","n">>],
       [name |-> "implementation", chars |-> <<"i","m","p","l","e","m","e","n","t","a","t","i","o","n">>] >>

DefaultTopics == <<"General Discussion", "Planning">>

CannedKeyPoints ==
    << "Discussed Azure Speech-to-Text integration with speaker diarization",
       "Reviewed timeline-based summarization approach using OpenAI",
       "Planned testing strategy with mock data before production" >>

CannedActionItems ==
    << "Prepare mock data for testing", "Review progress in next meeting" >>

CannedKeyDecisions ==
    << "Use Python for backend prototype testing",
       "Implement timeline-based summarization with 5-minute intervals",
       "Test with mock data before Azure API integration" >>

CannedFollowUps ==
    << "Complete backend prototype",
       "Schedule follow-up sync meeting",
       "Prepare test scenarios" >>

\* a faulty keyword scan: the comparison is case-sensitive
MockTopics_CaseSensitive(lines) ==
    LET found == SelectSeq(keywords, LAMBDA k :
                     \E i \in 1..Len(lines) : Contains(lines[i], k.chars))
    IN  [i \in 1..Len(found) |-> found[i].name]

\* the keywords found in some line, in list order
MockTopics(lines) ==
    LET found == SelectSeq(keywords, LAMBDA k :
                     \E i \in 1..Len(lines) :
                         Contains(Lower(lines[i]), Lower(k.chars)))
    IN  [i \in 1..Len(found) |-> found[i].name]

\* "test" in transcript.lower() or "action" in transcript.lower()
MentionsAction(transcript) ==
    \/ Contains(Lower(transcript), <<"t","e","s","t">>)
    \/ Contains(Lower(transcript), <<"a","c","t","i","o","n">>)

\* a faulty fallback: the topics list is shared between calls instead of
\* being created in each call, so earlier calls' topics are still in it
_mock_timeline_summary_SharedTopics(transcript, time_range, speakers) ==
    LET lines == SplitLines(transcript)
        carried == Flatten([i \in 1..Len(mockLog) |->
                       IF mockLog[i].op = "timeline"
                       THEN mockLog[i].result["topics"].v ELSE <<>>])
        found == carried \o MockTopics(lines)
        topics == IF found = <<>> THEN DefaultTopics ELSE found
    IN  [k \in {"key_points", "topics", "action_items"} |->
            CASE k = "key_points" -> ListVal(Take(CannedKeyPoints, Len(lines)))
              [] k = "topics" -> ListVal(Take(topics, 4))
              [] k = "action_items" ->
                    ListVal(IF MentionsAction(transcript)
                            THEN CannedActionItems ELSE <<>>)]

_mock_timeline_summary(transcript, time_range, speakers) ==
    LET lines == SplitLines(transcript)
        found == MockTopics(lines)
        topics == IF found = <<>> THEN DefaultTopics ELSE found
    IN  [k \in {"key_points", "topics", "action_items"} |->
            CASE k = "key_points" -> ListVal(Take(CannedKeyPoints, Len(lines)))
              [] k = "topics" -> ListVal(Take(topics, 4))
              [] k = "action_items" ->
                    ListVal(IF MentionsAction(transcript)
                            THEN CannedActionItems ELSE <<>>)]

\* a faulty aggregation: the action items are listed without deduplication
_mock_overall_summary_NoDedup(summaries) ==
    LET all_topics == UNION {Range(summaries[i].topics) : i \in 1..Len(summaries)}
        all_actions == Flatten([i \in 1..Len(summaries) |-> summaries[i].action_items])
    IN  [k \in {"overall_summary", "key_decisions", "follow_up_actions"} |->
            CASE k = "overall_summary" ->
                    StrVal(<<"Team meeting covering ">> \o Decimal(Len(summaries))
                           \o <<" discussion segments. ", "Main topics included ">>
                           \o JoinPieces(Take(ListOfSet(all_topics), 3), ", ")
                           \o <<". ", "Agreed on implementation approach and testing strategy.">>)
              [] k = "key_decisions" -> ListVal(CannedKeyDecisions)
              [] k = "follow_up_actions" ->
                    ListVal(IF all_actions # <<>>
                            THEN all_actions
                            ELSE CannedFollowUps)]

_mock_overall_summary(summaries) ==
    LET all_topics == UNION {Range(summaries[i].topics) : i \in 1..Len(summaries)}
        all_actions == Flatten([i \in 1..Len(summaries) |-> summaries[i].action_items])
    IN  [k \in {"overall_summary", "key_decisions", "follow_up_actions"} |->
            CASE k = "overall_summary" ->
                    StrVal(<<"Team meeting covering ">> \o Decimal(Len(summaries))
                           \o <<" discussion segments. ", "Main topics included ">>
                           \o JoinPieces(Take(ListOfSet(all_topics), 3), ", ")
                           \o <<". ", "Agreed on implementation approach and testing strategy.">>)
              [] k = "key_decisions" -> ListVal(CannedKeyDecisions)
              [] k = "follow_up_actions" ->
                    ListVal(IF all_actions # <<>>
                            THEN ListOfSet(Range(all_actions))
                            ELSE CannedFollowUps)]

-----------------------------------------------------------------------------
(* AzureOpenAIService: the live variant.  What the provider does inside    *)
(* one call is an input of the call: the request raises, the completion    *)
(* is not JSON, or the completion parses to a JSON value.                  *)

NoProvider == [kind |-> "none", body |-> JsonOther]
ProviderRaises == [kind |-> "raise", body |-> JsonOther]
ProviderNonJson == [kind |-> "nonjson", body |-> JsonOther]
ProviderJson(body) == [kind |-> "json", body |-> body]

\* a faulty try block: only the provider's own errors are caught, not the
\* JSONDecodeError of json.loads
LiveFails_OnlyProviderErrors(resp) == resp.kind = "raise"

\* the try block: chat.completions.create(...) then json.loads(...)
LiveFails(resp) == resp.kind \in {"raise", "nonjson"}

\* the provider is reached only past the early return of the mock branch
ProviderInvoked(mode) == ~mode

\* a faulty except branch: after a failed call the service stays in mock mode
ModeAfterCall_StickyFallback(mode, resp) == mode \/ LiveFails(resp)

\* self.use_mock after a generate_*_summary call: no handler assigns it
ModeAfterCall(mode, resp) == mode

generate_timeline_summary(transcript_segment, time_range, speakers, resp) ==
    IF use_mock
    THEN JsonDict(_mock_timeline_summary(transcript_segment, time_range, speakers))
    ELSE IF LiveFails(resp)
    THEN JsonDict(_mock_timeline_summary(transcript_segment, time_range, speakers))
    ELSE resp.body

generate_overall_summary(all_summaries, resp) ==
    IF use_mock
    THEN JsonDict(_mock_overall_summary(all_summaries))
    ELSE IF LiveFails(resp)
    THEN JsonDict(_mock_overall_summary(all_summaries))
    ELSE resp.body

-----------------------------------------------------------------------------
(* SummarizationService: the pure parts *)

\* a faulty format: the seconds are not padded to two digits
_format_time_UnpaddedSeconds(seconds) ==
    LET hours == seconds \div 3600
        minutes == (seconds % 3600) \div 60
        secs == seconds % 60
    IN  IF hours > 0
        THEN Decimal(hours) \o <<":">> \o Decimal02(minutes) \o <<":">> \o Decimal(secs)
        ELSE Decimal(minutes) \o <<":">> \o Decimal(secs)

\* _format_time: M:SS under one hour, else H:MM:SS
_format_time(seconds) ==
    LET hours == seconds \div 3600
        minutes == (seconds % 3600) \div 60
        secs == seconds % 60
    IN  IF hours > 0
        THEN Decimal(hours) \o <<":">> \o Decimal02(minutes) \o <<":">> \o Decimal02(secs)
        ELSE Decimal(minutes) \o <<":">> \o Decimal02(secs)

\* a faulty window end: not clipped to the duration
WindowEnd_Unclipped(cursor, total_duration) == cursor + timeline_interval

\* a faulty window end: the interval is counted from zero, not from the cursor
WindowEnd_FromZero(cursor, total_duration) == Min(timeline_interval, total_duration)

\* end_time = min(current_time + self.timeline_interval, total_duration)
WindowEnd(cursor, total_duration) ==
    Min(cursor + timeline_interval, total_duration)

\* a faulty range test: the window is closed on the right
InRange_Closed(s, cursor, end_time) ==
    s.start_time >= cursor /\ s.start_time <= end_time

\* s.start_time >= current_time and s.start_time < end_time
InRange(s, cursor, end_time) ==
    s.start_time >= cursor /\ s.start_time < end_time

\* a faulty selection: the segments of the range are put in time order
RangeSegments_ByStartTime(segments, cursor, end_time) ==
    SortSeq(SelectSeq(segments, LAMBDA s : InRange(s, cursor, end_time)),
            LAMBDA a, b : a.start_time < b.start_time)

\* the list comprehension: the segments of the range, in input order
RangeSegments(segments, cursor, end_time) ==
    SelectSeq(segments, LAMBDA s : InRange(s, cursor, end_time))

\* a faulty emission: empty windows are kept
EmitWindow_KeepEmpty(emitted, cursor, end_time, range_segments) ==
    Append(emitted, [start_time |-> cursor,
                     end_time |-> end_time,
                     segments |-> range_segments])

\* if range_segments: timelines.append({...})
EmitWindow(emitted, cursor, end_time, range_segments) ==
    IF range_segments # <<>>
    THEN Append(emitted, [start_time |-> cursor,
                          end_time |-> end_time,
                          segments |-> range_segments])
    ELSE emitted

\* speaker ids in ascending (lexicographic) order
SpeakerIds == << <<"A">>, <<"B">> >>

\* time_range = f"{self._format_time(start)} - {self._format_time(end)}"
TimeRange(segment_data) ==
    _format_time(segment_data.start_time) \o <<" ", "-", " ">>
        \o _format_time(segment_data.end_time)

\* "\n".join([f"{seg.speaker_id}: {seg.text}" for seg in segments])
TranscriptText(segment_data) ==
    LET segments == segment_data.segments
    IN  JoinChars([i \in 1..Len(segments) |->
                      segments[i].speaker_id \o <<":", " ">> \o segments[i].text],
                  <<"\n">>)

\* speakers = list(set(seg.speaker_id for seg in segments)); speakers.sort()
Speakers(segment_data) ==
    LET ids == {segment_data.segments[i].speaker_id :
                    i \in 1..Len(segment_data.segments)}
    IN  SelectSeq(SpeakerIds, LAMBDA x : x \in ids)

\* _summarize_timeline_segment: the summary it returns, or the exception
\* that leaves it
_summarize_timeline_segment(segment_data, resp) ==
    LET time_range == TimeRange(segment_data)
        speakers == Speakers(segment_data)
        summary_data == generate_timeline_summary(
                            TranscriptText(segment_data), time_range, speakers, resp)
    IN  IF summary_data.t # "dict"
        THEN [error |-> "AttributeError", value |-> <<>>]
        ELSE LET key_points == Get(summary_data.d, "key_points", ListVal(<<>>))
                 topics == Get(summary_data.d, "topics", ListVal(<<>>))
                 action_items == Get(summary_data.d, "action_items", ListVal(<<>>))
             IN  IF ~TimelineSummaryValid(key_points, topics, action_items)
                 THEN [error |-> "ValidationError", value |-> <<>>]
                 ELSE [error |-> "none",
                       value |-> << [time_range |-> time_range,
                                     start_time |-> segment_data.start_time,
                                     end_time |-> segment_data.end_time,
                                     speakers |-> speakers,
                                     key_points |-> key_points.v,
                                     topics |-> topics.v,
                                     action_items |-> action_items.v] >>]

\* a faulty accumulation: the summary is inserted at the front
AppendSummary_Front(summaries, summary) == <<summary>> \o summaries

\* timeline_summaries.append(summary)
AppendSummary(summaries, summary) == Append(summaries, summary)

\* a faulty loop: the last window is skipped
LoopDone_SkipLast(summaries, timeline_segments) ==
    Len(summaries) + 1 >= Len(timeline_segments)

\* the for loop over timeline_segments is exhausted
LoopDone(summaries, timeline_segments) ==
    Len(summaries) >= Len(timeline_segments)

\* return MeetingSummaryResponse(...): the response, or the exception
AssembleResponse(m, summaries, overall_data) ==
    IF overall_data.t # "dict"
    THEN [error |-> "AttributeError", value |-> <<>>]
    ELSE LET overall_summary == Get(overall_data.d, "overall_summary",
                                    StrVal(<<"No summary available">>))
             key_decisions == Get(overall_data.d, "key_decisions", ListVal(<<>>))
             follow_up_actions == Get(overall_data.d, "follow_up_actions", ListVal(<<>>))
         IN  IF ~MeetingSummaryResponseValid(overall_summary, key_decisions,
                                             follow_up_actions)
             THEN [error |-> "ValidationError", value |-> <<>>]
             ELSE [error |-> "none",
                   value |-> << [total_duration |-> m.duration,
                                 timeline_summaries |-> summaries,
                                 overall_summary |-> overall_summary.v,
                                 key_decisions |-> key_decisions.v,
                                 follow_up_actions |-> follow_up_actions.v] >>]

\* the while loop of _split_into_timelines from a cursor on; it is only
\* evaluated for a positive timeline_interval
RECURSIVE SplitFrom(_, _, _, _)
SplitFrom(segments, total_duration, cursor, emitted) ==
    IF ~(cursor < total_duration)
    THEN emitted
    ELSE LET end_time == WindowEnd(cursor, total_duration)
         IN  SplitFrom(segments, total_duration, end_time,
                       EmitWindow(emitted, cursor, end_time,
                                  RangeSegments(segments, cursor, end_time)))

\* _split_into_timelines run to its return
_split_into_timelines(segments, total_duration) ==
    SplitFrom(segments, total_duration, 0, <<>>)

\* the for loop of summarize_meeting from the summaries gathered so far;
\* resps[k] is what the provider does inside the k-th backend call
RECURSIVE SummarizeFrom(_, _, _)
SummarizeFrom(timeline_segments, resps, summaries) ==
    IF LoopDone(summaries, timeline_segments)
    THEN [error |-> "none", value |-> summaries]
    ELSE LET r == _summarize_timeline_segment(
                      timeline_segments[Len(summaries) + 1],
                      resps[Len(summaries) + 1])
         IN  IF r.error # "none"
             THEN [error |-> r.error, value |-> <<>>]
             ELSE SummarizeFrom(timeline_segments, resps,
                                AppendSummary(summaries, r.value[1]))

\* summarize_meeting run alone from entry to exit
summarize_meeting(m, resps) ==
    LET timeline_segments == _split_into_timelines(m.transcript, m.duration)
        s == SummarizeFrom(timeline_segments, resps, <<>>)
    IN  IF s.error # "none"
        THEN [error |-> s.error, value |-> <<>>]
        ELSE AssembleResponse(m, s.value,
                 generate_overall_summary(s.value, resps[Len(s.value) + 1]))

-----------------------------------------------------------------------------
(* Inputs *)

\* what a segment says: (speaker_id, text).  Under the live variant the
\* text reaches the fallback only, and one utterance is drawn there.
Utterances ==
    IF use_mock
    THEN { [speaker_id |-> <<"A">>, text |-> <<"T","e","s","t">>],
           [speaker_id |-> <<"B">>, text |-> <<"h","i">>] }
    ELSE { [speaker_id |-> <<"A">>, text |-> <<"T","e","s","t">>] }

\* a TranscriptSegment, as far as the service reads it; ids are unique
SegmentsAt(i) ==
    { [id |-> i, speaker_id |-> u.speaker_id, text |-> u.text, start_time |-> t] :
          u \in Utterances, t \in (-1)..MaxTime }

Transcripts ==
    UNION { { tr \in [1..n -> UNION {SegmentsAt(i) : i \in 1..n}] :
                  \A i \in 1..n : tr[i].id = i } : n \in 0..MaxSegs }

Meetings == { [transcript |-> tr, duration |-> d] :
                  tr \in Transcripts, d \in 0..MaxTime }

\* settings.timeline_interval_seconds is an unvalidated int
Intervals == {-1, 0, 2, 3}

TimelineKeys == {"key_points", "topics", "action_items"}
OverallKeys == {"overall_summary", "key_decisions", "follow_up_actions"}

LiveValue(k) ==
    CASE k = "key_points" -> ListVal(<<"Live point">>)
      [] k = "topics" -> ListVal(<<"Live topic">>)
      [] k = "action_items" -> ListVal(<<"Live action">>)
      [] k = "overall_summary" -> StrVal(<<"Live overall summary">>)
      [] k = "key_decisions" -> ListVal(<<"Live decision">>)
      [] k = "follow_up_actions" -> ListVal(<<"Live follow-up">>)

\* completions that parse: a non-object, an object with any subset of the
\* keys, an object with a wrongly typed field
TimelineResponses ==
    {ProviderRaises, ProviderNonJson, ProviderJson(JsonOther)}
    \cup { ProviderJson(JsonDict([k \in K |-> LiveValue(k)])) : K \in SUBSET TimelineKeys }
    \cup { ProviderJson(JsonDict([k \in TimelineKeys |->
               IF k = "key_points" THEN StrVal(<<"not a list">>) ELSE LiveValue(k)])) }

OverallResponses ==
    {ProviderRaises, ProviderNonJson, ProviderJson(JsonOther)}
    \cup { ProviderJson(JsonDict([k \in K |-> LiveValue(k)])) : K \in SUBSET OverallKeys }
    \cup { ProviderJson(JsonDict([k \in OverallKeys |->
               IF k = "overall_summary" THEN ListVal(<<"not a str">>) ELSE LiveValue(k)])) }

\* the provider raises, answers a complete object, answers an ill-typed object
FewTimelineResponses ==
    { ProviderRaises,
      ProviderJson(JsonDict([k \in TimelineKeys |-> LiveValue(k)])),
      ProviderJson(JsonDict([k \in TimelineKeys |->
          IF k = "key_points" THEN StrVal(<<"not a list">>) ELSE LiveValue(k)])) }

FewOverallResponses ==
    { ProviderRaises,
      ProviderJson(JsonDict([k \in OverallKeys |-> LiveValue(k)])),
      ProviderJson(JsonDict([k \in OverallKeys |->
          IF k = "overall_summary" THEN ListVal(<<"not a str">>) ELSE LiveValue(k)])) }

\* meetings whose segments all carry one utterance
FewMeetings ==
    { [transcript |-> [i \in 1..n |-> [id |-> i, speaker_id |-> <<"A">>,
                                       text |-> <<"T","e","s","t">>,
                                       start_time |-> f[i]]],
       duration |-> d] :
          f \in [1..MaxSegs -> 0..MaxTime], n \in 0..MaxSegs, d \in 0..MaxTime }

\* the inputs of a run
RequestMeetings == IF scope = "all" THEN Meetings ELSE FewMeetings
RequestTimelineResponses ==
    IF scope = "all" THEN TimelineResponses ELSE FewTimelineResponses
RequestOverallResponses ==
    IF scope = "all" THEN OverallResponses ELSE FewOverallResponses

\* every str that can sit in a topics or action_items list
StrUniverse ==
    [i \in 1..Len(keywords) |-> keywords[i].name] \o DefaultTopics
        \o CannedActionItems \o <<"Live topic", "Live action">>

HashOrders == {StrUniverse, Reverse(StrUniverse)}

-----------------------------------------------------------------------------
(* State machine: one SummarizationService serving requests one at a time   *)

NoMeeting == [transcript |-> <<>>, duration |-> 0]
NoCall == [op |-> "none", transcript |-> <<>>, time_range |-> <<>>,
           speakers |-> <<>>, summaries |-> <<>>]

\* a faulty constructor: the configuration flag is not consulted
ModeAtInit_ArgumentOnly(arg, flag, client_ok) == arg \/ ~client_ok

\* AzureOpenAIService.__init__: self.use_mock once the constructor is done
ModeAtInit(arg, flag, client_ok) ==
    IF arg \/ flag THEN TRUE
    ELSE IF client_ok THEN FALSE
    ELSE TRUE

\* AzureOpenAIService(use_mock=arg) under settings.use_mock_openai = flag;
\* client_ok: AzureOpenAI(...) does not raise when it is attempted
Construct(arg, flag, client_ok) ==
    /\ ctor_use_mock = arg
    /\ settings_use_mock_openai = flag
    /\ use_mock = ModeAtInit(arg, flag, client_ok)
    /\ has_client = (~(arg \/ flag) /\ client_ok)

\* the service of the application:
\* SummarizationService(use_mock_openai=settings.use_mock_openai)
ServiceInit ==
    /\ \E flag \in BOOLEAN, client_ok \in BOOLEAN : Construct(flag, flag, client_ok)
    /\ timeline_interval \in Intervals
    /\ hashOrder \in HashOrders

\* nothing is in flight outside the sequential request
NoOther ==
    /\ serviceLog = <<>>
    /\ reqs = <<>>
    /\ formatted = <<>>

NoRequest ==
    /\ meeting = NoMeeting
    /\ current_time = 0
    /\ timelines = <<>>
    /\ timeline_summaries = <<>>
    /\ calls = <<>>
    /\ lastCall = NoCall
    /\ lastResp = NoProvider
    /\ lastResult = JsonOther
    /\ response = <<>>
    /\ error = "none"
    /\ iterations = 0

\* the application has started and no request has arrived
Started ==
    /\ ServiceInit
    /\ pc = "idle"
    /\ NoRequest
    /\ mockLog = <<>>
    /\ NoOther

Init ==
    /\ Started
    /\ scope = "all"

InitFew ==
    /\ Started
    /\ scope = "few"

\* summarize_meeting is entered; _split_into_timelines starts
StartRequest ==
    /\ pc = "idle"
    /\ \E m \in RequestMeetings : meeting' = m
    /\ pc' = "split"
    /\ current_time' = 0
    /\ timelines' = <<>>
    /\ iterations' = 0
    /\ UNCHANGED frame
    /\ UNCHANGED <<use_mock, timeline_interval, hashOrder, timeline_summaries,
                   calls, lastCall, lastResp, lastResult, response, error, mockLog>>

\* one iteration of the while loop of _split_into_timelines
SplitStep ==
    /\ pc = "split"
    /\ current_time < meeting.duration
    /\ current_time > -MaxUnderrun
    /\ iterations < MaxTime + MaxUnderrun
    /\ LET end_time == WindowEnd(current_time, meeting.duration)
           range_segments == RangeSegments(meeting.transcript, current_time, end_time)
       IN  /\ timelines' = EmitWindow(timelines, current_time, end_time, range_segments)
           /\ current_time' = end_time
    /\ iterations' = iterations + 1
    /\ UNCHANGED frame
    /\ UNCHANGED <<use_mock, timeline_interval, hashOrder, pc, meeting,
                   timeline_summaries, calls, lastCall, lastResp, lastResult,
                   response, error, mockLog>>

\* the while loop ends; _split_into_timelines returns timelines
SplitReturn ==
    /\ pc = "split"
    /\ ~(current_time < meeting.duration)
    /\ pc' = "summarize"
    /\ current_time' = 0
    /\ UNCHANGED frame
    /\ UNCHANGED iterations
    /\ UNCHANGED <<use_mock, timeline_interval, hashOrder, meeting, timelines,
                   timeline_summaries, calls, lastCall, lastResp, lastResult,
                   response, error, mockLog>>

\* one iteration of the for loop of summarize_meeting
SummarizeStep ==
    /\ pc = "summarize"
    /\ ~LoopDone(timeline_summaries, timelines)
    /\ LET segment_data == timelines[Len(timeline_summaries) + 1]
       IN  \E resp \in (IF use_mock THEN {NoProvider} ELSE RequestTimelineResponses) :
             LET r == _summarize_timeline_segment(segment_data, resp)
             IN  /\ calls' = Append(calls, [op |-> "timeline",
                                            start_time |-> segment_data.start_time,
                                            size |-> Len(segment_data.segments)])
                 /\ lastCall' = [op |-> "timeline",
                                 transcript |-> TranscriptText(segment_data),
                                 time_range |-> TimeRange(segment_data),
                                 speakers |-> Speakers(segment_data),
                                 summaries |-> <<>>]
                 /\ lastResp' = resp
                 /\ lastResult' = generate_timeline_summary(
                                      TranscriptText(segment_data),
                                      TimeRange(segment_data),
                                      Speakers(segment_data), resp)
                 /\ IF r.error = "none"
                    THEN /\ timeline_summaries' =
                                AppendSummary(timeline_summaries, r.value[1])
                         /\ UNCHANGED <<pc, error>>
                    ELSE /\ pc' = "raised"
                         /\ error' = r.error
                         /\ UNCHANGED timeline_summaries
    /\ UNCHANGED frame
    /\ UNCHANGED iterations
    /\ UNCHANGED <<use_mock, timeline_interval, hashOrder, meeting, current_time,
                   timelines, response, mockLog>>

\* generate_overall_summary and the return of summarize_meeting
OverallStep ==
    /\ pc = "summarize"
    /\ LoopDone(timeline_summaries, timelines)
    /\ \E resp \in (IF use_mock THEN {NoProvider} ELSE RequestOverallResponses) :
         LET overall_data == generate_overall_summary(timeline_summaries, resp)
             r == AssembleResponse(meeting, timeline_summaries, overall_data)
         IN  /\ calls' = Append(calls, [op |-> "overall", start_time |-> 0,
                                        size |-> Len(timeline_summaries)])
             /\ lastCall' = [op |-> "overall", transcript |-> <<>>,
                             time_range |-> <<>>, speakers |-> <<>>,
                             summaries |-> timeline_summaries]
             /\ lastResp' = resp
             /\ lastResult' = overall_data
             /\ IF r.error = "none"
                THEN /\ response' = r.value
                     /\ pc' = "done"
                     /\ UNCHANGED error
                ELSE /\ pc' = "raised"
                     /\ error' = r.error
                     /\ UNCHANGED response
    /\ UNCHANGED frame
    /\ UNCHANGED iterations
    /\ UNCHANGED <<use_mock, timeline_interval, hashOrder, meeting, current_time,
                   timelines, timeline_summaries, mockLog>>

\* the caller has the response or the exception; the service is idle again
Finish ==
    /\ pc \in {"done", "raised"}
    /\ pc' = "idle"
    /\ meeting' = NoMeeting
    /\ current_time' = 0
    /\ timelines' = <<>>
    /\ iterations' = 0
    /\ timeline_summaries' = <<>>
    /\ calls' = <<>>
    /\ lastCall' = NoCall
    /\ lastResp' = NoProvider
    /\ lastResult' = JsonOther
    /\ response' = <<>>
    /\ error' = "none"
    /\ UNCHANGED frame
    /\ UNCHANGED <<use_mock, timeline_interval, hashOrder, mockLog>>

Next ==
    \/ StartRequest
    \/ SplitStep
    \/ SplitReturn
    \/ SummarizeStep
    \/ OverallStep
    \/ Finish

Spec == Init /\ [][Next]_vars

\* SummarizeStep can be taken: its guard
SummarizeEnabled ==
    /\ pc = "summarize"
    /\ ~LoopDone(timeline_summaries, timelines)

\* requests over the few inputs in which the request's thread keeps
\* running and every backend call returns: weak
\* fairness of each step of the request (for SummarizeStep with its enabling
\* condition written out)
SpecFair ==
    /\ InitFew
    /\ [][Next]_vars
    /\ WF_vars(SplitStep)
    /\ WF_vars(SplitReturn)
    /\ ([]<>(~SummarizeEnabled) \/ []<><<SummarizeStep>>_vars)
    /\ WF_vars(OverallStep)

-----------------------------------------------------------------------------
(* The deterministic variant called directly, any calls in any order *)

MockTranscripts ==
    { <<"A",":"," ","T","e","s","t">>,
      <<"B",":"," ","h","i">>,
      <<"A",":"," ","A","z","u","r","e"," ","S","p","e","e","c","h"," ",
        "O","p","e","n","A","I"," ","i","O","S"," ","t","e","s","t">>,
      <<"A",":"," ","a","\n","B",":"," ","b","\n","A",":"," ","c","\n",
        "B",":"," ","A","C","T","I","O","N">>,
      <<"A",":"," ","T","e","s","t","\n","B",":"," ","h","i">>,
      <<"A",":"," ","t","e","\n","s","t">> }

MockTimeRanges ==
    { <<"0",":","0","0"," ","-"," ","0",":","0","2">>,
      <<"0",":","0","2"," ","-"," ","0",":","0","3">> }

MockSpeakerLists == { << <<"A">>, <<"B">> >> }

\* the TimelineSummary the orchestrator builds from a fallback result
MockSummaryOf(transcript) ==
    LET d == _mock_timeline_summary(transcript, <<>>, <<>>)
    IN  [time_range |-> <<>>, start_time |-> 0, end_time |-> 0, speakers |-> <<>>,
         key_points |-> d["key_points"].v,
         topics |-> d["topics"].v,
         action_items |-> d["action_items"].v]

MockSummaryLists ==
    LET test == MockSummaryOf(<<"A",":"," ","T","e","s","t">>)
        hi == MockSummaryOf(<<"B",":"," ","h","i">>)
        azure == MockSummaryOf(
                     <<"A",":"," ","A","z","u","r","e"," ","S","p","e","e","c","h"," ",
                       "O","p","e","n","A","I"," ","i","O","S"," ","t","e","s","t">>)
    IN  { <<>>, <<test>>, <<hi>>, <<test, test>>, <<azure, test>>, <<hi, hi>> }

\* the service under the default settings: use_mock_openai, 300 seconds
InitMock ==
    /\ Construct(TRUE, TRUE, TRUE)
    /\ timeline_interval = 300
    /\ hashOrder \in HashOrders
    /\ pc = "direct"
    /\ NoRequest
    /\ mockLog = <<>>
    /\ NoOther
    /\ scope = "all"

MockTimelineCall ==
    /\ pc = "direct"
    /\ Len(mockLog) < MaxMockCalls
    /\ \E transcript \in MockTranscripts, time_range \in MockTimeRanges,
          speakers \in MockSpeakerLists :
         mockLog' = Append(mockLog,
             [op |-> "timeline", transcript |-> transcript,
              time_range |-> time_range, speakers |-> speakers,
              summaries |-> <<>>,
              result |-> _mock_timeline_summary(transcript, time_range, speakers)])
    /\ UNCHANGED frame
    /\ UNCHANGED iterations
    /\ UNCHANGED <<use_mock, timeline_interval, hashOrder, pc, meeting,
                   current_time, timelines, timeline_summaries, calls, lastCall,
                   lastResp, lastResult, response, error>>

MockOverallCall ==
    /\ pc = "direct"
    /\ Len(mockLog) < MaxMockCalls
    /\ \E summaries \in MockSummaryLists :
         mockLog' = Append(mockLog,
             [op |-> "overall", transcript |-> <<>>, time_range |-> <<>>,
              speakers |-> <<>>, summaries |-> summaries,
              result |-> _mock_overall_summary(summaries)])
    /\ UNCHANGED frame
    /\ UNCHANGED iterations
    /\ UNCHANGED <<use_mock, timeline_interval, hashOrder, pc, meeting,
                   current_time, timelines, timeline_summaries, calls, lastCall,
                   lastResp, lastResult, response, error>>

NextMock ==
    \/ MockTimelineCall
    \/ MockOverallCall

SpecMock == InitMock /\ [][NextMock]_vars

-----------------------------------------------------------------------------
(* Two requests on the one SummarizationService of main.py, interleaved     *)
(* between their backend calls.  What summarize_meeting keeps in locals is  *)
(* a field of the request; what it keeps on self is a variable.             *)

RequestIds == {1, 2}

IdleRequest == [pc |-> "idle", meeting |-> NoMeeting, timelines |-> <<>>,
                timeline_summaries |-> <<>>, resps |-> <<>>,
                response |-> <<>>, error |-> "none", interleaved |-> FALSE]

\* history: request i makes a backend call with provider outcome resp, and
\* whether another request is between two of its own backend calls just then
Called(rs, i, resp) ==
    [rs EXCEPT ![i].resps = Append(@, resp),
               ![i].interleaved = @ \/ \E j \in DOMAIN rs \ {i} :
                                          /\ rs[j].pc = "summarize"
                                          /\ rs[j].resps # <<>>]

ConcTranscripts ==
    { << [id |-> 1, speaker_id |-> <<"A">>, text |-> <<"T","e","s","t">>,
          start_time |-> a],
         [id |-> 2, speaker_id |-> <<"A">>, text |-> <<"T","e","s","t">>,
          start_time |-> b] >> : a \in {0, MaxTime - 1}, b \in {0, MaxTime - 1} }

ConcMeetings == { [transcript |-> tr, duration |-> MaxTime] : tr \in ConcTranscripts }

\* a faulty service: timeline_summaries is an attribute of the service
StoreSummaries_OnService(rs, i, summaries) ==
    [j \in DOMAIN rs |-> [rs[j] EXCEPT !.timeline_summaries = summaries]]

\* timeline_summaries is a local of the call of request i
StoreSummaries(rs, i, summaries) ==
    [rs EXCEPT ![i].timeline_summaries = summaries]

InitConc ==
    /\ \E flag \in BOOLEAN, client_ok \in BOOLEAN : Construct(flag, flag, client_ok)
    /\ timeline_interval \in {w \in Intervals : w > 0}
    /\ hashOrder \in HashOrders
    /\ pc = "concurrent"
    /\ NoRequest
    /\ mockLog = <<>>
    /\ serviceLog = <<>>
    /\ formatted = <<>>
    /\ scope = "few"
    /\ reqs = [i \in RequestIds |-> IdleRequest]

\* request i enters summarize_meeting and runs up to its first backend call
ConcStart(i) ==
    /\ pc = "concurrent"
    /\ reqs[i].pc = "idle"
    /\ \E m \in ConcMeetings :
         reqs' = [reqs EXCEPT ![i] =
                     [IdleRequest EXCEPT
                         !.pc = "summarize",
                         !.meeting = m,
                         !.timelines = _split_into_timelines(m.transcript, m.duration)]]
    /\ UNCHANGED <<use_mock, timeline_interval, hashOrder, pc, meeting,
                   current_time, timelines, timeline_summaries, calls, lastCall,
                   lastResp, lastResult, response, error, mockLog, ctor_use_mock,
                   settings_use_mock_openai, has_client, iterations, serviceLog,
                   scope, formatted>>

\* request i runs one iteration of the for loop, up to its next backend call
ConcSummarize(i) ==
    /\ pc = "concurrent"
    /\ reqs[i].pc = "summarize"
    /\ ~LoopDone(reqs[i].timeline_summaries, reqs[i].timelines)
    /\ LET segment_data == reqs[i].timelines[Len(reqs[i].timeline_summaries) + 1]
       IN  \E resp \in (IF use_mock THEN {NoProvider} ELSE FewTimelineResponses) :
             LET r == _summarize_timeline_segment(segment_data, resp)
                 called == Called(reqs, i, resp)
             IN  IF r.error = "none"
                 THEN reqs' = StoreSummaries(called, i,
                                  AppendSummary(reqs[i].timeline_summaries, r.value[1]))
                 ELSE reqs' = [called EXCEPT ![i].pc = "raised",
                                             ![i].error = r.error]
    /\ UNCHANGED <<use_mock, timeline_interval, hashOrder, pc, meeting,
                   current_time, timelines, timeline_summaries, calls, lastCall,
                   lastResp, lastResult, response, error, mockLog, ctor_use_mock,
                   settings_use_mock_openai, has_client, iterations, serviceLog,
                   scope, formatted>>

\* request i makes its last backend call and returns or raises
ConcOverall(i) ==
    /\ pc = "concurrent"
    /\ reqs[i].pc = "summarize"
    /\ LoopDone(reqs[i].timeline_summaries, reqs[i].timelines)
    /\ \E resp \in (IF use_mock THEN {NoProvider} ELSE FewOverallResponses) :
         LET overall_data == generate_overall_summary(reqs[i].timeline_summaries, resp)
             r == AssembleResponse(reqs[i].meeting, reqs[i].timeline_summaries,
                                   overall_data)
             called == Called(reqs, i, resp)
         IN  IF r.error = "none"
             THEN reqs' = [called EXCEPT ![i].pc = "done", ![i].response = r.value]
             ELSE reqs' = [called EXCEPT ![i].pc = "raised", ![i].error = r.error]
    /\ UNCHANGED <<use_mock, timeline_interval, hashOrder, pc, meeting,
                   current_time, timelines, timeline_summaries, calls, lastCall,
                   lastResp, lastResult, response, error, mockLog, ctor_use_mock,
                   settings_use_mock_openai, has_client, iterations, serviceLog,
                   scope, formatted>>

NextConc ==
    \/ \E i \in RequestIds : ConcStart(i)
    \/ \E i \in RequestIds : ConcSummarize(i)
    \/ \E i \in RequestIds : ConcOverall(i)

SpecConc == InitConc /\ [][NextConc]_vars

-----------------------------------------------------------------------------
(* One AzureOpenAIService called directly, any calls in any order.  resp is *)
(* what the provider would do if the call reached it.                       *)

BackendTranscripts ==
    { <<"A",":"," ","T","e","s","t">>, <<"B",":"," ","h","i">> }

BackendTimeRange == <<"0",":","0","0"," ","-"," ","0",":","0","2">>

InitBackend ==
    /\ \E arg \in BOOLEAN, flag \in BOOLEAN, client_ok \in BOOLEAN :
           Construct(arg, flag, client_ok)
    /\ timeline_interval = 300
    /\ hashOrder \in HashOrders
    /\ pc = "backend"
    /\ NoRequest
    /\ mockLog = <<>>
    /\ NoOther
    /\ scope = "all"

\* the entry of serviceLog for one call
BackendEntry(op, transcript, summaries, resp, result) ==
    [op |-> op, mode |-> use_mock, transcript |-> transcript,
     summaries |-> summaries, invoked |-> ProviderInvoked(use_mock),
     resp |-> IF ProviderInvoked(use_mock) THEN resp ELSE NoProvider,
     result |-> result]

BackendTimelineCall ==
    /\ pc = "backend"
    /\ Len(serviceLog) < MaxBackendCalls
    /\ \E transcript \in BackendTranscripts, speakers \in MockSpeakerLists,
          resp \in TimelineResponses :
         /\ serviceLog' = Append(serviceLog,
                BackendEntry("timeline", transcript, <<>>, resp,
                    generate_timeline_summary(transcript, BackendTimeRange,
                                              speakers, resp)))
         /\ use_mock' = ModeAfterCall(use_mock, resp)
    /\ UNCHANGED <<timeline_interval, hashOrder, pc, meeting, current_time,
                   timelines, timeline_summaries, calls, lastCall, lastResp,
                   lastResult, response, error, mockLog, ctor_use_mock,
                   settings_use_mock_openai, has_client, iterations, reqs, scope,
                   formatted>>

BackendOverallCall ==
    /\ pc = "backend"
    /\ Len(serviceLog) < MaxBackendCalls
    /\ \E summaries \in MockSummaryLists, resp \in OverallResponses :
         /\ serviceLog' = Append(serviceLog,
                BackendEntry("overall", <<>>, summaries, resp,
                    generate_overall_summary(summaries, resp)))
         /\ use_mock' = ModeAfterCall(use_mock, resp)
    /\ UNCHANGED <<timeline_interval, hashOrder, pc, meeting, current_time,
                   timelines, timeline_summaries, calls, lastCall, lastResp,
                   lastResult, response, error, mockLog, ctor_use_mock,
                   settings_use_mock_openai, has_client, iterations, reqs, scope,
                   formatted>>

NextBackend ==
    \/ BackendTimelineCall
    \/ BackendOverallCall

SpecBackend == InitBackend /\ [][NextBackend]_vars

-----------------------------------------------------------------------------
(* _format_time and summarize_meeting applied to times of minutes and hours, *)
(* under the default settings                                                *)

FormatSeconds ==
    {0, 5, 9, 10, 59, 60, 61, 299, 300, 500, 599, 600, 3599, 3600, 3601, 3660,
     7325, 35999, 36000, 86399}

\* a segment "A: Test" starting at each of the given times, in that order
SegmentsStarting(starts) ==
    [i \in 1..Len(starts) |-> [id |-> i, speaker_id |-> <<"A">>,
                               text |-> <<"T","e","s","t">>,
                               start_time |-> starts[i]]]

ScenarioMeeting ==
    [transcript |-> SegmentsStarting(<<0, 15, 30, 299, 301, 450>>), duration |-> 500]

FormatMeetings ==
    { ScenarioMeeting,
      [transcript |-> SegmentsStarting(<<3700, 10>>), duration |-> 3725],
      [transcript |-> SegmentsStarting(<<3599, 3600>>), duration |-> 3900] }

InitFormat ==
    /\ Construct(TRUE, TRUE, TRUE)
    /\ timeline_interval = 300
    /\ hashOrder \in HashOrders
    /\ pc = "format"
    /\ NoRequest
    /\ mockLog = <<>>
    /\ serviceLog = <<>>
    /\ reqs = <<>>
    /\ formatted = <<>>
    /\ scope = "all"

\* SummarizationService._format_time(seconds)
FormatCall ==
    /\ pc = "format"
    /\ Len(formatted) < MaxFormatCalls
    /\ \E seconds \in FormatSeconds :
         formatted' = Append(formatted,
             [op |-> "format", seconds |-> seconds, text |-> _format_time(seconds),
              meeting |-> NoMeeting, windows |-> <<>>, outcome |-> <<>>])
    /\ UNCHANGED <<use_mock, timeline_interval, hashOrder, pc, meeting,
                   current_time, timelines, timeline_summaries, calls, lastCall,
                   lastResp, lastResult, response, error, mockLog, ctor_use_mock,
                   settings_use_mock_openai, has_client, iterations, serviceLog,
                   reqs, scope>>

\* summarize_meeting(m) from entry to exit, no provider being reached
FormatSummarizeCall ==
    /\ pc = "format"
    /\ Len(formatted) < MaxFormatCalls
    /\ \E m \in FormatMeetings :
         formatted' = Append(formatted,
             [op |-> "summarize", seconds |-> 0, text |-> <<>>, meeting |-> m,
              windows |-> _split_into_timelines(m.transcript, m.duration),
              outcome |-> summarize_meeting(m,
                              [k \in 1..(Len(m.transcript) + 1) |-> NoProvider])])
    /\ UNCHANGED <<use_mock, timeline_interval, hashOrder, pc, meeting,
                   current_time, timelines, timeline_summaries, calls, lastCall,
                   lastResp, lastResult, response, error, mockLog, ctor_use_mock,
                   settings_use_mock_openai, has_client, iterations, serviceLog,
                   reqs, scope>>

NextFormat ==
    \/ FormatCall
    \/ FormatSummarizeCall

SpecFormat == InitFormat /\ [][NextFormat]_vars

-----------------------------------------------------------------------------
(* Properties *)

\* _split_into_timelines has returned its windows
SplitOver == pc \in {"summarize", "done", "raised"}

\* the places (window, position) at which the segment with id i was emitted
PlacesOf(i) ==
    { p \in (1..Len(timelines)) \X (1..Len(meeting.transcript)) :
          /\ p[2] <= Len(timelines[p[1]].segments)
          /\ timelines[p[1]].segments[p[2]].id = i }

\* C1: with interval width W > 0, every segment with 0 <= start_time < D is
\* in exactly one emitted window, at one place; a segment with start_time >= D
\* or start_time < 0 is in no window.
C1_Coverage ==
    (timeline_interval > 0 /\ SplitOver) =>
        \A i \in 1..Len(meeting.transcript) :
            LET s == meeting.transcript[i]
            IN  IF 0 <= s.start_time /\ s.start_time < meeting.duration
                THEN Cardinality(PlacesOf(i)) = 1
                ELSE PlacesOf(i) = {}

\* a segment starting exactly on the boundary of the second window, next to
\* a segment outside [0, D)
C1_Witness ==
    /\ timeline_interval > 0
    /\ SplitOver
    /\ \E i, j \in 1..Len(meeting.transcript) :
           /\ meeting.transcript[i].start_time = timeline_interval
           /\ meeting.transcript[i].start_time < meeting.duration
           /\ \/ meeting.transcript[j].start_time < 0
              \/ meeting.transcript[j].start_time >= meeting.duration

\* C2: the timeline_summaries of the returned MeetingSummaryResponse are
\* strictly increasing by start_time and are, one for one and in order, the
\* windows _split_into_timelines emitted.
C2_ChronologicalOrder ==
    pc = "done" =>
        LET ts == response[1].timeline_summaries
        IN  /\ Len(ts) = Len(timelines)
            /\ \A i \in 1..Len(ts) :
                   /\ ts[i].start_time = timelines[i].start_time
                   /\ ts[i].end_time = timelines[i].end_time
            /\ \A i, j \in 1..Len(ts) :
                   i < j => ts[i].start_time < ts[j].start_time

\* a response with two window summaries
C2_Witness ==
    /\ pc = "done"
    /\ Len(response[1].timeline_summaries) >= 2

\* every emitted window starts on a multiple of W and ends at
\* min(start + W, D); emitted windows do not overlap
WindowsTile ==
    /\ \A i \in 1..Len(timelines) :
           /\ timelines[i].start_time >= 0
           /\ timelines[i].start_time % timeline_interval = 0
           /\ timelines[i].end_time =
                  Min(timelines[i].start_time + timeline_interval, meeting.duration)
    /\ \A i, j \in 1..Len(timelines) :
           i < j => timelines[i].end_time <= timelines[j].start_time

\* D mod W when that is nonzero, else W
FinalWidth ==
    IF meeting.duration % timeline_interval # 0
    THEN meeting.duration % timeline_interval
    ELSE timeline_interval

\* C3 as stated: the windows tile, and the final emitted window has width
\* D mod W when that is nonzero, else W.
C3_FinalEmittedWidth ==
    (timeline_interval > 0 /\ SplitOver) =>
        /\ WindowsTile
        /\ timelines # <<>> =>
               LET last == timelines[Len(timelines)]
               IN  last.end_time - last.start_time = FinalWidth

\* C3 amended: the windows tile, and the window that ends at D (the final
\* window of the tiling, emitted only when a segment starts in it) has width
\* D mod W when that is nonzero, else W.
C3_Tiling ==
    (timeline_interval > 0 /\ SplitOver) =>
        /\ WindowsTile
        /\ \A i \in 1..Len(timelines) :
               timelines[i].end_time = meeting.duration =>
                   timelines[i].end_time - timelines[i].start_time = FinalWidth

\* two windows emitted, the second one ending at D and narrower than W
C3_Witness ==
    /\ timeline_interval > 0
    /\ SplitOver
    /\ Len(timelines) = 2
    /\ timelines[2].end_time = meeting.duration
    /\ meeting.duration % timeline_interval # 0

\* C4 as stated: whatever the live provider does on each call,
\* summarize_meeting returns a response and no exception leaves it.
C4_NeverRaises == pc # "raised"

\* what the deterministic variant returns for the arguments of the latest call
FallbackOfLastCall ==
    IF lastCall.op = "timeline"
    THEN _mock_timeline_summary(lastCall.transcript, lastCall.time_range,
                                lastCall.speakers)
    ELSE _mock_overall_summary(lastCall.summaries)

\* C5: in live mode, when the provider call raises or its completion is not
\* JSON, the call raises nothing and returns exactly what the deterministic
\* variant returns for the same arguments.
C5_FallbackOnFailure ==
    (~use_mock /\ lastResp.kind \in {"raise", "nonjson"}) =>
        /\ lastResult = JsonDict(FallbackOfLastCall)
        /\ error = "none"

\* an overall-summary call over a non-empty list whose completion is not JSON
C5_Witness ==
    /\ ~use_mock
    /\ lastResp.kind = "nonjson"
    /\ lastCall.op = "overall"
    /\ lastCall.summaries # <<>>

\* C6 as stated: with an interval width <= 0 and a duration > 0 the request
\* fails fast: the step it takes on entering the partitioner raises an
\* input-validation error.
C6_FailsFast ==
    [][ (timeline_interval <= 0 /\ meeting.duration > 0 /\ pc = "split")
            => pc' = "raised" ]_vars

\* C7: no window without segments is emitted or handed to the backend; a
\* meeting without segments gives zero timeline summaries, and
\* generate_overall_summary is still called exactly once, with an empty list.
C7_NoEmptyWindow ==
    /\ \A i \in 1..Len(timelines) : timelines[i].segments # <<>>
    /\ \A i \in 1..Len(calls) : calls[i].op = "timeline" => calls[i].size > 0
    /\ (pc \in {"done", "raised"} /\ meeting.transcript = <<>>) =>
           /\ calls = <<[op |-> "overall", start_time |-> 0, size |-> 0]>>
           /\ lastCall.op = "overall"
           /\ lastCall.summaries = <<>>
    /\ (pc = "done" /\ meeting.transcript = <<>>) =>
           response[1].timeline_summaries = <<>>

\* a meeting of positive duration without segments has been summarized
C7_Witness ==
    /\ pc = "done"
    /\ meeting.transcript = <<>>
    /\ meeting.duration > timeline_interval
    /\ timeline_interval > 0

\* C8: the backend is called once per emitted window, in window order, and
\* then once for the overall summary, which gets all the window summaries:
\* windows + 1 calls in a request that returns.
C8_CallOrder ==
    /\ \A i \in 1..Len(calls) :
           IF i <= Len(timelines)
           THEN calls[i] = [op |-> "timeline",
                            start_time |-> timelines[i].start_time,
                            size |-> Len(timelines[i].segments)]
           ELSE /\ i = Len(timelines) + 1
                /\ calls[i] = [op |-> "overall", start_time |-> 0,
                               size |-> Len(timelines)]
    /\ pc = "done" =>
           /\ Len(calls) = Len(timelines) + 1
           /\ lastCall.op = "overall"
           /\ lastCall.summaries = timeline_summaries
           /\ Len(timeline_summaries) = Len(timelines)

\* a request with two windows has returned after three backend calls
C8_Witness ==
    /\ pc = "done"
    /\ Len(calls) = 3

LastRespWellTypedObject ==
    /\ ~use_mock
    /\ lastResp.kind = "json"
    /\ lastResp.body.t = "dict"
    /\ \A k \in DOMAIN lastResp.body.d :
           lastResp.body.d[k].t = (IF k = "overall_summary" THEN "str" ELSE "list")

\* the items of key k in the latest completion, or the default when k is missing
LastRespOr(k, default) ==
    IF k \in DOMAIN lastResp.body.d THEN lastResp.body.d[k].v ELSE default

\* C10: when a backend response leaves out any of the expected keys nothing
\* is raised; a window summary's missing lists are empty, a meeting
\* summary's missing overall_summary is "No summary available" and its
\* missing lists are empty; present keys are passed through unchanged.
C10_MissingKeysDefault ==
    LastRespWellTypedObject =>
        IF lastCall.op = "timeline"
        THEN /\ pc = "summarize"
             /\ error = "none"
             /\ LET summary == timeline_summaries[Len(timeline_summaries)]
                IN  /\ summary.key_points = LastRespOr("key_points", <<>>)
                    /\ summary.topics = LastRespOr("topics", <<>>)
                    /\ summary.action_items = LastRespOr("action_items", <<>>)
        ELSE /\ pc = "done"
             /\ error = "none"
             /\ response[1].overall_summary =
                    LastRespOr("overall_summary", <<"No summary available">>)
             /\ response[1].key_decisions = LastRespOr("key_decisions", <<>>)
             /\ response[1].follow_up_actions = LastRespOr("follow_up_actions", <<>>)

\* a response assembled from an overall completion that holds key_decisions
\* only, after a window completion that held topics only
C10_Witness ==
    /\ LastRespWellTypedObject
    /\ pc = "done"
    /\ DOMAIN lastResp.body.d = {"key_decisions"}
    /\ \E i \in 1..Len(timeline_summaries) :
           /\ timeline_summaries[i].topics = <<"Live topic">>
           /\ timeline_summaries[i].key_points = <<>>
           /\ timeline_summaries[i].action_items = <<>>

\* what the caller of request i holds once the request is over
Outcome(r) == [error |-> r.error, value |-> r.response]

\* C11: with two requests interleaved between their backend calls on one
\* service, no step changes a service field, the backend mode or the meeting
\* of a request in flight, and every request that is over holds exactly what
\* summarize_meeting run alone gives for its meeting and the provider
\* outcomes of its own calls
C11_Step ==
    /\ use_mock' = use_mock
    /\ timeline_interval' = timeline_interval
    /\ hashOrder' = hashOrder
    /\ \A i \in RequestIds :
         /\ reqs[i].pc # "idle" => reqs'[i].meeting = reqs[i].meeting
         /\ reqs'[i].pc \in {"done", "raised"} =>
                Outcome(reqs'[i]) = summarize_meeting(reqs'[i].meeting, reqs'[i].resps)

C11_RequestsIndependent == [][pc = "concurrent" => C11_Step]_vars

\* both requests returned, each with two window summaries of its own meeting,
\* and each made a backend call between two backend calls of the other
C11_Witness ==
    /\ pc = "concurrent"
    /\ \A i \in RequestIds :
         /\ reqs[i].pc = "done"
         /\ Len(reqs[i].response[1].timeline_summaries) = 2
         /\ reqs[i].interleaved
    /\ reqs[1].meeting # reqs[2].meeting
    /\ reqs[1].resps # reqs[2].resps

\* ceil(D / W) for W > 0
CeilDiv(D, W) == (D + W - 1) \div W

\* the while loop is over, with the number of iterations the claim gives
LoopRanToEnd ==
    /\ current_time >= meeting.duration
    /\ iterations = CeilDiv(meeting.duration, timeline_interval)
    /\ (meeting.duration = 0 => iterations = 0 /\ timelines = <<>>)

\* C12: for an interval W > 0 the cursor strictly increases in every
\* iteration of the while loop, the loop is left with cursor >= D after
\* ceil(D/W) iterations (none, and no window, when D = 0), and a request that
\* is in the loop eventually leaves summarize_meeting when every backend call
\* returns; under the deterministic variant it leaves by returning
C12_Terminates ==
    /\ [][(pc = "split" /\ pc' = "split" /\ timeline_interval > 0)
              => current_time' > current_time]_vars
    /\ [][(pc = "split" /\ pc' = "summarize" /\ timeline_interval > 0)
              => LoopRanToEnd]_vars
    /\ [](pc = "split" /\ timeline_interval > 0 /\ meeting.duration = 0
              => iterations = 0 /\ current_time = 0 /\ timelines = <<>>)
    /\ (pc = "split" /\ timeline_interval > 0) ~> (pc \in {"done", "raised"})
    /\ (pc = "split" /\ timeline_interval > 0 /\ use_mock) ~> (pc = "done")

\* a request returned after a loop of two iterations, the second one clipped
C12_Witness ==
    /\ pc = "done"
    /\ timeline_interval > 0
    /\ iterations = 2
    /\ meeting.duration < 2 * timeline_interval
    /\ Len(response[1].timeline_summaries) = 2

\* the deterministic variant's result for the arguments of a logged call
FallbackOfEntry(e) ==
    IF e.op = "timeline"
    THEN JsonDict(_mock_timeline_summary(e.transcript, BackendTimeRange,
                                         <<<<"A">>, <<"B">>>>))
    ELSE JsonDict(_mock_overall_summary(e.summaries))

\* C13: on a service constructed in live mode, whatever calls failed or
\* succeeded before, use_mock is still false, every call reached the
\* provider, a failed call returned the fallback for its own arguments and a
\* successful call returned the provider's object
C13_FallbackPerCall ==
    (pc = "backend" /\ has_client) =>
        /\ ~use_mock
        /\ \A i \in 1..Len(serviceLog) :
             /\ ~serviceLog[i].mode
             /\ serviceLog[i].invoked
             /\ serviceLog[i].result =
                    IF LiveFails(serviceLog[i].resp)
                    THEN FallbackOfEntry(serviceLog[i])
                    ELSE serviceLog[i].resp.body

\* a failed live call was followed by a call that reached the provider and
\* returned the provider's object
C13_Witness ==
    /\ pc = "backend"
    /\ has_client
    /\ Len(serviceLog) >= 2
    /\ LiveFails(serviceLog[1].resp)
    /\ serviceLog[1].result = FallbackOfEntry(serviceLog[1])
    /\ serviceLog[2].invoked
    /\ serviceLog[2].resp.kind = "json"
    /\ serviceLog[2].result = serviceLog[2].resp.body
    /\ serviceLog[2].result # FallbackOfEntry(serviceLog[2])

\* C18: use_mock is true exactly when the constructor argument or the
\* configuration flag is true or no client could be constructed, and on a
\* service in mock mode no call reaches the provider and every call returns
\* the deterministic variant's result for its arguments
C18_MockMode ==
    pc = "backend" =>
        /\ use_mock = (ctor_use_mock \/ settings_use_mock_openai \/ ~has_client)
        /\ \A i \in 1..Len(serviceLog) :
             serviceLog[i].mode =>
                 /\ ~serviceLog[i].invoked
                 /\ serviceLog[i].resp = NoProvider
                 /\ serviceLog[i].result = FallbackOfEntry(serviceLog[i])

\* use_mock=False was passed while settings.use_mock_openai is true, and both
\* operations were called
C18_Witness ==
    /\ pc = "backend"
    /\ ~ctor_use_mock
    /\ settings_use_mock_openai
    /\ use_mock
    /\ Len(serviceLog) >= 2
    /\ serviceLog[1].op = "timeline"
    /\ serviceLog[2].op = "overall"
    /\ ~serviceLog[1].invoked
    /\ ~serviceLog[2].invoked

\* the strings of a list of window summaries' fields, as a set
TopicsOf(summaries) ==
    UNION { {summaries[i].topics[j] : j \in 1..Len(summaries[i].topics)} :
                i \in 1..Len(summaries) }
ActionsOf(summaries) ==
    UNION { {summaries[i].action_items[j] : j \in 1..Len(summaries[i].action_items)} :
                i \in 1..Len(summaries) }

\* a list without repetitions
NoRepeats(seq) == \A i, j \in 1..Len(seq) : seq[i] = seq[j] => i = j

\* the templated sentence for n window summaries and the topic names given
OverallSentence(n, names) ==
    <<"Team meeting covering ">> \o Decimal(n)
        \o <<" discussion segments. ", "Main topics included ">>
        \o (IF Len(names) = 0 THEN <<>>
            ELSE IF Len(names) = 1 THEN <<names[1]>>
            ELSE IF Len(names) = 2 THEN <<names[1], ", ", names[2]>>
            ELSE <<names[1], ", ", names[2], ", ", names[3]>>)
        \o <<". ", "Agreed on implementation approach and testing strategy.">>

\* C14: every generate_overall_summary result of the deterministic variant
\* has follow_up_actions listing each action item of the supplied window
\* summaries exactly once when there is one, and the canned three-item list
\* when there is none; key_decisions is the canned three-item list;
\* overall_summary reports the number of window summaries and min(3, number
\* of distinct topics) distinct topic names of the supplied summaries
C14_OverallFallback ==
    \A i \in 1..Len(mockLog) :
        mockLog[i].op = "overall" =>
            LET summaries == mockLog[i].summaries
                d == mockLog[i].result
                follow_up == d["follow_up_actions"].v
                shown == IF Cardinality(TopicsOf(summaries)) < 3
                         THEN Cardinality(TopicsOf(summaries)) ELSE 3
            IN  /\ DOMAIN d = {"overall_summary", "key_decisions", "follow_up_actions"}
                /\ IF ActionsOf(summaries) # {}
                   THEN /\ NoRepeats(follow_up)
                        /\ {follow_up[j] : j \in 1..Len(follow_up)} = ActionsOf(summaries)
                   ELSE /\ follow_up = CannedFollowUps
                        /\ Len(follow_up) = 3
                /\ d["key_decisions"].v = CannedKeyDecisions
                /\ Len(d["key_decisions"].v) = 3
                /\ \E names \in [1..shown -> TopicsOf(summaries)] :
                       /\ NoRepeats(names)
                       /\ d["overall_summary"].v = OverallSentence(Len(summaries), names)

\* an overall summary of two window summaries that share their action items
\* and have more than three topics between them, and one of no window summary
C14_Witness ==
    /\ \E i \in 1..Len(mockLog) :
         /\ mockLog[i].op = "overall"
         /\ Len(mockLog[i].summaries) = 2
         /\ Cardinality(TopicsOf(mockLog[i].summaries)) > 3
         /\ mockLog[i].summaries[1].action_items # <<>>
         /\ mockLog[i].summaries[1].action_items = mockLog[i].summaries[2].action_items
         /\ Len(mockLog[i].result["follow_up_actions"].v) = 2
    /\ \E i \in 1..Len(mockLog) :
         /\ mockLog[i].op = "overall"
         /\ mockLog[i].summaries = <<>>
         /\ mockLog[i].result["follow_up_actions"].v = CannedFollowUps

\* the keyword names whose lowercased form occurs in the lowercased text
KeywordHits(text) ==
    LET hits == SelectSeq(keywords, LAMBDA k : Contains(Lower(text), Lower(k.chars)))
    IN  [i \in 1..Len(hits) |-> hits[i].name]

\* the number of lines of a text
LineCount(text) == 1 + Cardinality({i \in 1..Len(text) : text[i] = "\n"})

\* C15: every generate_timeline_summary result of the deterministic variant
\* has topics = the first 4 keywords, in list order, that occur in the
\* transcript text case-insensitively, or the two generic topics when none
\* occurs; key_points = the first min(3, number of lines) canned statements;
\* action_items = the canned two-item list iff the text contains "test" or
\* "action" case-insensitively, else the empty list
C15_TimelineFallback ==
    \A i \in 1..Len(mockLog) :
        mockLog[i].op = "timeline" =>
            LET text == mockLog[i].transcript
                d == mockLog[i].result
                hits == KeywordHits(text)
                n == IF LineCount(text) < 3 THEN LineCount(text) ELSE 3
            IN  /\ DOMAIN d = {"key_points", "topics", "action_items"}
                /\ d["topics"].v =
                       IF hits = <<>> THEN <<"General Discussion", "Planning">>
                       ELSE IF Len(hits) <= 4 THEN hits
                       ELSE <<hits[1], hits[2], hits[3], hits[4]>>
                /\ d["key_points"].v = [j \in 1..n |-> CannedKeyPoints[j]]
                /\ d["action_items"].v =
                       IF \/ Contains(Lower(text), <<"t","e","s","t">>)
                          \/ Contains(Lower(text), <<"a","c","t","i","o","n">>)
                       THEN CannedActionItems
                       ELSE <<>>
                /\ Len(CannedActionItems) = 2
                /\ Len(CannedKeyPoints) = 3

\* results for a transcript with a differently cased keyword, one with five
\* keywords (capped at four), and one with four lines and none
C15_Witness ==
    /\ \E i \in 1..Len(mockLog) :
         /\ mockLog[i].op = "timeline"
         /\ mockLog[i].transcript = <<"A",":"," ","T","e","s","t">>
         /\ mockLog[i].result["topics"].v = <<"test">>
         /\ Len(mockLog[i].result["key_points"].v) = 1
    /\ \E i \in 1..Len(mockLog) :
         /\ mockLog[i].op = "timeline"
         /\ Len(KeywordHits(mockLog[i].transcript)) = 5
         /\ mockLog[i].result["topics"].v = <<"Azure", "Speech", "OpenAI", "iOS">>
    /\ \E i \in 1..Len(mockLog) :
         /\ mockLog[i].op = "timeline"
         /\ LineCount(mockLog[i].transcript) = 4
         /\ mockLog[i].result["topics"].v = <<"General Discussion", "Planning">>
         /\ Len(mockLog[i].result["key_points"].v) = 3
         /\ mockLog[i].result["action_items"].v # <<>>

\* the positions of the transcript whose segment starts inside window w, in
\* ascending order
PositionsIn(w) ==
    SelectSeq([i \in 1..Len(meeting.transcript) |-> i],
              LAMBDA i : /\ meeting.transcript[i].start_time >= w.start_time
                         /\ meeting.transcript[i].start_time < w.end_time)

\* the "{speaker_id}: {text}" lines of the segments at the given positions,
\* joined by newlines
LinesAt(positions) ==
    JoinChars([j \in 1..Len(positions) |->
                  meeting.transcript[positions[j]].speaker_id \o <<":", " ">>
                      \o meeting.transcript[positions[j]].text],
              <<"\n">>)

\* which segments each window holds, whatever their order
Membership(windows) ==
    { [start_time |-> windows[k].start_time,
       end_time |-> windows[k].end_time,
       ids |-> {windows[k].segments[j].id : j \in 1..Len(windows[k].segments)}] :
          k \in 1..Len(windows) }

\* the transcript with its segments in the order p
Permuted(transcript, p) == [i \in 1..Len(transcript) |-> transcript[p[i]]]

\* C16: every emitted window holds exactly the input segments that start in
\* its range, in input order; the transcript text of the latest
\* generate_timeline_summary call is the newline-joined "{speaker_id}: {text}"
\* lines of its window's segments in input order; and for a positive interval
\* every permutation of the input segments gives the same windows with the
\* same members
C16_InputOrder ==
    /\ \A k \in 1..Len(timelines) :
         LET w == timelines[k]
             positions == PositionsIn(w)
         IN  /\ Len(w.segments) = Len(positions)
             /\ \A j \in 1..Len(positions) :
                    w.segments[j] = meeting.transcript[positions[j]]
    /\ (pc \in {"summarize", "done", "raised"} /\ lastCall.op = "timeline") =>
         \E k \in 1..Len(timelines) :
             /\ timelines[k].start_time = calls[Len(calls)].start_time
             /\ lastCall.transcript = LinesAt(PositionsIn(timelines[k]))
    /\ (pc \in {"summarize", "done", "raised"} /\ timeline_interval > 0) =>
         \A p \in Permutations(1..Len(meeting.transcript)) :
             Membership(_split_into_timelines(Permuted(meeting.transcript, p),
                                              meeting.duration))
                 = Membership(timelines)

\* the backend was handed "A: Test\nB: hi" for a window whose first segment
\* starts after its second
C16_Witness ==
    /\ pc = "summarize"
    /\ lastCall.op = "timeline"
    /\ Len(timelines) = 1
    /\ Len(timelines[1].segments) = 2
    /\ timelines[1].segments[1].start_time > timelines[1].segments[2].start_time
    /\ lastCall.transcript = <<"A",":"," ","T","e","s","t","\n","B",":"," ","h","i">>

\* the number a text of decimal digits denotes; -1 when it is not such a text
RECURSIVE DigitsValue(_)
DigitsValue(text) ==
    IF text = <<>> THEN -1
    ELSE LET last == text[Len(text)]
             d == IF \E n \in 0..9 : DigitChars[n + 1] = last
                  THEN (CHOOSE n \in 0..9 : DigitChars[n + 1] = last)
                  ELSE -1
         IN  IF d = -1 THEN -1
             ELSE IF Len(text) = 1 THEN d
             ELSE LET front == DigitsValue(SubSeq(text, 1, Len(text) - 1))
                  IN  IF front = -1 THEN -1 ELSE 10 * front + d

\* a decimal number without padding
Unpadded(text) == DigitsValue(text) >= 0 /\ (Len(text) > 1 => text[1] # "0")

\* a two-digit field below sixty
TwoDigits(text) == Len(text) = 2 /\ DigitsValue(text) >= 0 /\ DigitsValue(text) < 60

\* text is M:SS of s when s is under one hour, and H:MM:SS of s otherwise
IsFormatOf(text, s) ==
    LET colons == {i \in 1..Len(text) : text[i] = ":"}
    IN  IF s < 3600
        THEN /\ Cardinality(colons) = 1
             /\ LET c == CHOOSE i \in colons : TRUE
                    m == SubSeq(text, 1, c - 1)
                    ss == SubSeq(text, c + 1, Len(text))
                IN  /\ Unpadded(m)
                    /\ TwoDigits(ss)
                    /\ 60 * DigitsValue(m) + DigitsValue(ss) = s
        ELSE /\ Cardinality(colons) = 2
             /\ LET c1 == CHOOSE i \in colons : \A j \in colons : i <= j
                    c2 == CHOOSE i \in colons : \A j \in colons : j <= i
                    h == SubSeq(text, 1, c1 - 1)
                    mm == SubSeq(text, c1 + 1, c2 - 1)
                    ss == SubSeq(text, c2 + 1, Len(text))
                IN  /\ Unpadded(h)
                    /\ TwoDigits(mm)
                    /\ TwoDigits(ss)
                    /\ 3600 * DigitsValue(h) + 60 * DigitsValue(mm) + DigitsValue(ss) = s

\* text is "{format(start)} - {format(end)}"
IsTimeRangeOf(text, start, end) ==
    \E i \in 1..Len(text) :
        /\ i + 2 <= Len(text)
        /\ SubSeq(text, i, i + 2) = <<" ", "-", " ">>
        /\ IsFormatOf(SubSeq(text, 1, i - 1), start)
        /\ IsFormatOf(SubSeq(text, i + 3, Len(text)), end)

=============================================================================
